---- MODULE Spec2Model ----
(***************************************************************************)
(* Model of the quantizers of image-filter.cc (pdf2djvu): Dummy, Mask,     *)
(* WebSafe, Default and the GraphicsMagick variant built without           *)
(* GraphicsMagick.  A state holds one pair of renderings (fg, bg), the     *)
(* caller-owned outputs (background_color, has_foreground, has_background) *)
(* and the stream the last call wrote.                                     *)
(***************************************************************************)
EXTENDS Integers, Sequences, FiniteSets, TLC

VARIABLES
  fg,               \* pixels of out_fg: fg[y][x] = <<r, g, b>>
  bg,               \* pixels of out_bg
  width, height,
  max_fg_colors,    \* djvu::max_fg_colors
  background_color, \* int background_color[3] of the caller
  has_foreground,   \* bool &has_foreground
  has_background,   \* bool &has_background
  stream,           \* what the call wrote to std::ostream &stream
  divisor,          \* DefaultQuantizer: the local divisor when the call ended
  entry,            \* the caller-owned outputs as they were when the call began
  call,             \* the quantizer called last, and whether out_fg == out_bg
  outcome           \* "idle", "returned", "NotImplementedError" or "SIGFPE"

vars == <<fg, bg, width, height, max_fg_colors, background_color,
          has_foreground, has_background, stream, divisor, entry, call, outcome>>

-----------------------------------------------------------------------------
(* Bounds and input domains *)

\* a rendering has at most MaxPixels pixels (width * height <= MaxPixels)
MaxPixels == 3

Black == <<0, 0, 0>>
White == <<255, 255, 255>>
Grey10 == <<10, 10, 10>>
Red11 == <<11, 0, 0>>
Mixed == <<200, 100, 42>>

\* <<fg pixel, bg pixel>> at one coordinate
PixelPairs == { <<Grey10, Grey10>>, <<Mixed, Grey10>>, <<Black, Grey10>>, <<Red11, White>> }

\* values the caller's background_color may hold when a call begins
EntryColors == { White, Grey10 }

\* values of the palette limit
FgColorLimits == { 1, 2 }

-----------------------------------------------------------------------------
(* Streams *)

\* The stream is kept as its sections, in the order they are written:
\* the header tokens, the palette-size line (<<n>>, or <<>> when none is
\* written), the palette triples and the runs of each row.
EmptyStream == [header |-> <<>>, count |-> <<>>, palette |-> <<>>, rows |-> <<>>]

TwoTo20 == 1048576
NoColor == 4095

\* write_uint32(stream, ((uint32_t)color << 20) + length): the four bytes
\* written, most significant first.  The 32-bit item is kept as its upper 12
\* and its lower 20 bits.
RunWord(color, length) ==
  LET upper == (color + length \div TwoTo20) % 4096
      lower == length % TwoTo20
  IN  << upper \div 16,
         (upper % 16) * 16 + lower \div 65536,
         (lower \div 256) % 256,
         lower % 256 >>

\* the index and the length a reader takes from the four bytes of a word
WordIndex(word) == word[1] * 16 + word[2] \div 16
WordLength(word) == (word[2] % 16) * 65536 + word[3] * 256 + word[4]

-----------------------------------------------------------------------------
(* rle::R4, the bitonal run-length writer *)

\* R4::R4(stream, width, height) writes the header
R4_header(w, h) == <<"R4", w, h>>

\* the runs R4 writes for one row of bits fed with r4 << bit: alternating
\* run lengths, the first one counting background (0) pixels
RECURSIVE R4_runs(_, _, _, _)
R4_runs(bits, x, pixel, length) ==
  IF x > Len(bits) THEN <<length>>
  ELSE IF bits[x] = pixel THEN R4_runs(bits, x + 1, pixel, length + 1)
  ELSE <<length>> \o R4_runs(bits, x + 1, bits[x], 1)

R4_row(bits) == R4_runs(bits, 1, 0, 0)

-----------------------------------------------------------------------------
(* The conditions shared by the pixel loops *)

Rows == 1..height
Cols == 1..width

\* if (p_fg[0] != p_bg[0] || p_fg[1] != p_bg[1] || p_fg[2] != p_bg[2])
Differs(y, x) == fg[y][x][1] # bg[y][x][1] \/ fg[y][x][2] # bg[y][x][2] \/ fg[y][x][3] # bg[y][x][3]

\* (p_fg[0] || p_fg[1] || p_fg[2])
NonZero(y, x) == fg[y][x][1] # 0 \/ fg[y][x][2] # 0 \/ fg[y][x][3] # 0

\* ScanForeground without the test of the fg colour and of the flag
ScanForegroundMutant == \E y \in Rows : \E x \in Cols : Differs(y, x)

\* has_foreground after the pixel loop
ScanForeground ==
  has_foreground \/ \E y \in Rows : \E x \in Cols : Differs(y, x) /\ NonZero(y, x)

\* ScanBackground without the test if (!has_background)
ScanBackgroundMutant(reference) == \E y \in Rows : \E x \in Cols : bg[y][x] # reference

\* has_background after the pixel loop, background_color holding reference
ScanBackground(reference) ==
  has_background \/ \E y \in Rows : \E x \in Cols :
    \E i \in 1..3 : reference[i] # bg[y][x][i]

-----------------------------------------------------------------------------
(* class Rgb18 *)

\* Rgb18(): the value of a pixel that has no colour
NoRgb18 == 0 - 1

\* Rgb18(r, g, b): (r >> 2) | ((g >> 2) << 6) | ((b >> 2) << 12)
Rgb18(r, g, b) == (r \div 4) + 64 * (g \div 4) + 4096 * (b \div 4)

\* Rgb18::operator [](i), i in 0..2:
\* (((value >> (6 * i)) << 2) & 0xff) | ((value >> (6 * i + 4)) & 3)
Rgb18_at(value, i) ==
  LET shifted == value \div (64 ^ i)
  IN  ((shifted * 4) % 256) + ((shifted \div 16) % 4)

Rgb18_bytes(value) == <<Rgb18_at(value, 0), Rgb18_at(value, 1), Rgb18_at(value, 2)>>

\* what a division by zero does: Trap stands for the signal that ends the
\* process, a number >= 0 for the quotient the machine leaves
Trap == 0 - 1
DivZeroOutcomes == { Trap, 0 }

\* const int c = (n + k - 1) / k, with n = 1 << 8
Buckets(k) == (256 + k - 1) \div k

\* reduce_component giving the bucket m for the value of the bucket
reduce_componentMutant(v, k, dz) == (v * Buckets(k)) \div 256

\* Rgb18::reduce(k); dz is the quotient of (n - 1) * m / (c - 1) when c = 1
reduce_component(v, k, dz) ==
  LET c == Buckets(k)
      m == (v * c) \div 256
  IN  IF c = 1 THEN dz ELSE (255 * m) \div (c - 1)

reduce(value, k, dz) ==
  Rgb18(reduce_component(Rgb18_at(value, 0), k, dz),
        reduce_component(Rgb18_at(value, 1), k, dz),
        reduce_component(Rgb18_at(value, 2), k, dz))

-----------------------------------------------------------------------------
(* DefaultQuantizer: the first pass over the pixels *)

\* new_color of the pixel at (y, x)
PixelColor(y, x) ==
  IF Differs(y, x) THEN Rgb18(fg[y][x][1], fg[y][x][2], fg[y][x][3]) ELSE NoRgb18

\* the bits of original_colors that are set
original_colors == { PixelColor(y, x) : y \in Rows, x \in Cols } \ { NoRgb18 }

\* runs[y]: the runs of row y, each a Run (color, length)
RECURSIVE RowRuns(_, _, _)
RowRuns(y, x, run) ==
  IF x > width
    THEN IF run.length > 0 THEN <<run>> ELSE <<>>
    ELSE LET new_color == PixelColor(y, x)
         IN  IF run.color = new_color
               THEN RowRuns(y, x + 1, [run EXCEPT !.length = @ + 1])
               ELSE (IF run.length > 0 THEN <<run>> ELSE <<>>)
                    \o RowRuns(y, x + 1, [color |-> new_color, length |-> 1])

runs == [y \in Rows |-> RowRuns(y, 1, [color |-> NoRgb18, length |-> 0])]

\* the elements of a set of integers in ascending order, as the loops
\* over the bits of a bitset meet them
RECURSIVE Ascending(_)
Ascending(S) ==
  IF S = {} THEN <<>>
  ELSE LET least == CHOOSE a \in S : \A b \in S : a <= b
       IN  <<least>> \o Ascending(S \ {least})

\* the number of elements of S below c: the index the ascending loops give c
Rank(S, c) == Cardinality({ d \in S : d < c })

-----------------------------------------------------------------------------
(* DefaultQuantizer: the search for the palette *)

\* one pass of the for loop over original_colors with the given divisor:
\* colors are the set bits in ascending order, from position i on
RECURSIVE ReducePass(_, _, _, _, _, _)
ReducePass(colors, i, k, dz, quantized, counter) ==
  IF i > Len(colors)
    THEN [quantized_colors |-> quantized, new_color_counter |-> counter]
    ELSE LET new_color == reduce(colors[i], k, dz)
         IN  IF new_color \in quantized
               THEN ReducePass(colors, i + 1, k, dz, quantized, counter)
               ELSE IF counter + 1 > max_fg_colors
                 THEN [quantized_colors |-> quantized \cup {new_color},
                       new_color_counter |-> counter + 1]
                 ELSE ReducePass(colors, i + 1, k, dz, quantized \cup {new_color}, counter + 1)

\* LoopGuard of a quantizer that never reduces
LoopGuardMutant(color_counter) == FALSE

\* while (color_counter > djvu::max_fg_colors)
LoopGuard(color_counter) == color_counter > max_fg_colors

\* the first divisor for which c - 1 = 0 in Rgb18::reduce
ZeroDivisor == 256

\* the pass the loop body makes with divisor k
Pass(colors, k, dz) == ReducePass(colors, 1, k, dz, {}, 0)

\* the while loop (colors: the set bits of original_colors, color_counter:
\* their number).  A pass depends on the divisor only, so the loop ends with
\* the least divisor above 4 whose pass leaves the guard false; its body
\* divides by zero from ZeroDivisor on.  The result holds divisor,
\* color_counter and quantized_colors when the loop ends, or trapped when the
\* division by zero ended the process.
FindPalette(colors, color_counter, dz) ==
  IF LoopGuard(color_counter)
    THEN LET last == CHOOSE k \in 5..ZeroDivisor :
                       /\ k = ZeroDivisor \/ ~LoopGuard(Pass(colors, k, dz).new_color_counter)
                       /\ \A j \in 5..(k - 1) : LoopGuard(Pass(colors, j, dz).new_color_counter)
         IN  IF last = ZeroDivisor /\ dz = Trap
               THEN [divisor |-> last, color_counter |-> color_counter,
                     quantized_colors |-> {}, trapped |-> TRUE]
               ELSE [divisor |-> last,
                     color_counter |-> Pass(colors, last, dz).new_color_counter,
                     quantized_colors |-> Pass(colors, last, dz).quantized_colors,
                     trapped |-> FALSE]
    ELSE [divisor |-> 4, color_counter |-> color_counter,
          quantized_colors |-> {}, trapped |-> FALSE]

\* lines 292-314: int divisor = 4; the loop; if (divisor == 4) quantized_colors = original_colors
Palette(dz) ==
  LET colors == Ascending(original_colors)
      found == FindPalette(colors, Len(colors), dz)
  IN  IF found.divisor = 4
        THEN [found EXCEPT !.quantized_colors = original_colors]
        ELSE found

\* lines 316-334: the palette-size line and the triples written after it
PaletteCount(p) == IF p.color_counter = 0 THEN 1 ELSE p.color_counter

PaletteTriples(p) ==
  IF p.color_counter = 0
    THEN << White >>
    ELSE LET colors == Ascending(p.quantized_colors)
         IN  [i \in 1..Len(colors) |-> Rgb18_bytes(colors[i])]

\* ColorMap without the map of the reduced colours
ColorMapMutant(p, color, dz) ==
  IF color = NoRgb18 THEN NoColor
  ELSE Rank(original_colors, color)

\* lines 336-360: color_map[color], for the color of a run
ColorMap(p, color, dz) ==
  IF color = NoRgb18 THEN NoColor
  ELSE IF p.divisor = 4 THEN Rank(original_colors, color)
  ELSE LET new_color == reduce(color, p.divisor, dz)
       IN  IF new_color \in p.quantized_colors
             THEN Rank(p.quantized_colors, new_color)
             ELSE 0

\* lines 362-370: the words of row y
RowWords(p, y, dz) ==
  [i \in 1..Len(runs[y]) |-> RunWord(ColorMap(p, runs[y][i].color, dz), runs[y][i].length)]

-----------------------------------------------------------------------------
(* WebSafeQuantizer *)

\* output_web_palette: the triples written by the loops over b, g and r
RECURSIVE WebLoopB(_, _, _)
WebLoopB(r, g, b) ==
  IF b < 6
    THEN << <<(51 * r) % 256, (51 * g) % 256, (51 * b) % 256>> >> \o WebLoopB(r, g, b + 1)
    ELSE <<>>

RECURSIVE WebLoopG(_, _)
WebLoopG(r, g) == IF g < 6 THEN WebLoopB(r, g, 0) \o WebLoopG(r, g + 1) ELSE <<>>

RECURSIVE WebLoopR(_)
WebLoopR(r) == IF r < 6 THEN WebLoopG(r, 0) \o WebLoopR(r + 1) ELSE <<>>

output_web_palette == WebLoopR(0)

\* WebColor with buckets as wide as the palette steps
WebColorMutant(p) == ((p[3] + 1) \div 51) + 6 * (((p[2] + 1) \div 51) + 6 * ((p[1] + 1) \div 51))

\* new_color of a foreground pixel, line 124
WebColor(p) == ((p[3] + 1) \div 43) + 6 * (((p[2] + 1) \div 43) + 6 * ((p[1] + 1) \div 43))

WebPixel(y, x) == IF Differs(y, x) THEN WebColor(fg[y][x]) ELSE NoColor

\* the words written for row y, from pixel x on, with the run (color, length) open
RECURSIVE WebRowWords(_, _, _, _)
WebRowWords(y, x, color, length) ==
  IF x > width THEN << RunWord(color, length) >>
  ELSE LET new_color == WebPixel(y, x)
       IN  IF color = new_color
             THEN WebRowWords(y, x + 1, color, length + 1)
             ELSE (IF length > 0 THEN << RunWord(color, length) >> ELSE <<>>)
                  \o WebRowWords(y, x + 1, new_color, 1)

-----------------------------------------------------------------------------
(* The calls *)

\* dummy_quantizer(width, height, background_color, stream)
dummy_rows == [y \in Rows |-> << width >>]

dummy_quantizer ==
  [stream |-> [header |-> R4_header(width, height), count |-> <<>>,
               palette |-> <<>>, rows |-> dummy_rows],
   background_color |-> <<255, 255, 255>>]

Callable == outcome = "idle"

Inputs == UNCHANGED <<fg, bg, width, height, max_fg_colors>>

Entered(name, same) ==
  /\ entry' = [background_color |-> background_color,
               has_foreground |-> has_foreground,
               has_background |-> has_background]
  /\ call' = [quantizer |-> name, same |-> same]

\* Identical without has_background = true
IdenticalMutant ==
  /\ stream' = dummy_quantizer.stream
  /\ background_color' = dummy_quantizer.background_color
  /\ UNCHANGED <<has_foreground, has_background>>
  /\ divisor' = 0
  /\ outcome' = "returned"

\* the branch if (out_fg == out_bg) of Mask, WebSafe and Default
Identical ==
  /\ stream' = dummy_quantizer.stream
  /\ background_color' = dummy_quantizer.background_color
  /\ has_background' = TRUE
  /\ UNCHANGED has_foreground
  /\ divisor' = 0
  /\ outcome' = "returned"

\* DummyQuantizer doing what the other quantizers do for identical images
DummyQuantizerMutant(same) ==
  /\ Callable
  /\ Entered("Dummy", same)
  /\ Identical
  /\ Inputs

\* DummyQuantizer::operator()
DummyQuantizer(same) ==
  /\ Callable
  /\ Entered("Dummy", same)
  /\ stream' = dummy_quantizer.stream
  /\ background_color' = dummy_quantizer.background_color
  /\ UNCHANGED <<has_foreground, has_background>>
  /\ divisor' = 0
  /\ outcome' = "returned"
  /\ Inputs

\* the reference the bg pixels are compared with in MaskQuantizer, which
\* does not assign background_color: the value the caller left there
MaskReference == background_color

MaskQuantizer(same) ==
  /\ Callable
  /\ Entered("Mask", same)
  /\ IF same
       THEN Identical
       ELSE /\ stream' = [header |-> R4_header(width, height), count |-> <<>>, palette |-> <<>>,
                          rows |-> [y \in Rows |->
                                     R4_row([x \in Cols |-> IF Differs(y, x) THEN 1 ELSE 0])]]
            /\ background_color' = MaskReference
            /\ has_background' = ScanBackground(MaskReference)
            /\ has_foreground' = ScanForeground
            /\ divisor' = 0
            /\ outcome' = "returned"
  /\ Inputs

WebSafeQuantizer(same) ==
  /\ Callable
  /\ Entered("WebSafe", same)
  /\ IF same
       THEN Identical
       ELSE /\ stream' = [header |-> <<"R6", width, height>>, count |-> <<216>>,
                          palette |-> output_web_palette,
                          rows |-> [y \in Rows |-> WebRowWords(y, 1, NoColor, 0)]]
            /\ background_color' = bg[1][1]
            /\ has_background' = ScanBackground(bg[1][1])
            /\ has_foreground' = ScanForeground
            /\ divisor' = 0
            /\ outcome' = "returned"
  /\ Inputs

\* DefaultQuantizer past the first pass, when no division by zero ends it:
\* the palette p and the runs are written
Finish(p, dz) ==
  /\ divisor' = p.divisor
  /\ stream' = [header |-> <<"R6", width, height>>,
                count |-> << PaletteCount(p) >>,
                palette |-> PaletteTriples(p),
                rows |-> [y \in Rows |-> RowWords(p, y, dz)]]
  /\ outcome' = "returned"

\* DefaultQuantizer past the first pass: a division by zero, when the loop
\* comes to one, either ends the process with only the header written or
\* leaves a quotient
Written ==
  LET p == Palette(Trap)
  IN  IF p.trapped
        THEN \/ /\ divisor' = p.divisor
                /\ stream' = [header |-> <<"R6", width, height>>, count |-> <<>>,
                              palette |-> <<>>, rows |-> <<>>]
                /\ outcome' = "SIGFPE"
             \/ \E dz \in DivZeroOutcomes \ {Trap} : Finish(Palette(dz), dz)
        ELSE Finish(p, Trap)

DefaultQuantizer(same) ==
  /\ Callable
  /\ Entered("Default", same)
  /\ IF same
       THEN Identical
       ELSE /\ background_color' = bg[1][1]
            /\ has_background' = ScanBackground(bg[1][1])
            /\ has_foreground' = ScanForeground
            /\ Written
  /\ Inputs

\* a constructor that does not throw
GraphicsMagickConstructorMutant == "constructed"

\* GraphicsMagickQuantizer::GraphicsMagickQuantizer(config), built without
\* GraphicsMagick: what constructing the quantizer ends in
GraphicsMagickConstructor == "NotImplementedError"

\* the GraphicsMagick variant is constructed and called; operator() has an
\* empty body, and runs only when the constructor has not thrown
GraphicsMagickQuantizer(same) ==
  /\ Callable
  /\ Entered("GraphicsMagick", same)
  /\ outcome' = IF GraphicsMagickConstructor = "NotImplementedError"
                  THEN "NotImplementedError" ELSE "returned"
  /\ stream' = EmptyStream
  /\ divisor' = 0
  /\ UNCHANGED <<background_color, has_foreground, has_background>>
  /\ Inputs

\* the caller, between two calls: it takes what was written and hands the
\* next call an empty stream and the outputs as the last call left them
NextCall ==
  /\ outcome = "returned"
  /\ outcome' = "idle"
  /\ stream' = EmptyStream
  /\ divisor' = 0
  /\ entry' = [background_color |-> background_color,
               has_foreground |-> has_foreground,
               has_background |-> has_background]
  /\ call' = [quantizer |-> "none", same |-> FALSE]
  /\ UNCHANGED <<background_color, has_foreground, has_background>>
  /\ Inputs

-----------------------------------------------------------------------------
(* The specification *)

Dimensions == { d \in (1..MaxPixels) \X (1..MaxPixels) : d[1] * d[2] <= MaxPixels }

Init ==
  /\ \E d \in Dimensions :
       /\ width = d[1]
       /\ height = d[2]
       /\ \E img \in [1..d[2] -> [1..d[1] -> PixelPairs]] :
            /\ fg = [y \in 1..d[2] |-> [x \in 1..d[1] |-> img[y][x][1]]]
            /\ bg = [y \in 1..d[2] |-> [x \in 1..d[1] |-> img[y][x][2]]]
  /\ max_fg_colors \in FgColorLimits
  /\ background_color \in EntryColors
  /\ has_foreground \in BOOLEAN
  /\ has_background \in BOOLEAN
  /\ stream = EmptyStream
  /\ divisor = 0
  /\ entry = [background_color |-> background_color,
              has_foreground |-> has_foreground,
              has_background |-> has_background]
  /\ call = [quantizer |-> "none", same |-> FALSE]
  /\ outcome = "idle"

Next ==
  \/ \E same \in BOOLEAN : DummyQuantizer(same)
  \/ \E same \in BOOLEAN : MaskQuantizer(same)
  \/ \E same \in BOOLEAN : WebSafeQuantizer(same)
  \/ \E same \in BOOLEAN : DefaultQuantizer(same)
  \/ \E same \in BOOLEAN : GraphicsMagickQuantizer(same)
  \/ NextCall

Spec == Init /\ [][Next]_vars

-----------------------------------------------------------------------------
(* Reading a state: the call that ended and what it wrote *)

Returned(name) == call.quantizer = name /\ outcome = "returned"

\* Mask, WebSafe or Default has returned from a call with out_fg # out_bg
Analyzed == call.quantizer \in { "Mask", "WebSafe", "Default" } /\ ~call.same /\ outcome = "returned"

\* the index each pixel of a row carries, from the words of the row
RECURSIVE PixelIndices(_, _)
PixelIndices(words, i) ==
  IF i > Len(words) THEN <<>>
  ELSE [j \in 1..WordLength(words[i]) |-> WordIndex(words[i])] \o PixelIndices(words, i + 1)

Foreground(y, x) == fg[y][x] # bg[y][x]

\* the Rgb18 value a palette triple stands for
TripleKey(t) == Rgb18(t[1], t[2], t[3])

\* the value of the palette the colour of a foreground pixel is looked up as
FinalKey(y, x) ==
  LET key == Rgb18(fg[y][x][1], fg[y][x][2], fg[y][x][3])
  IN  IF divisor = 4 THEN key ELSE reduce(key, divisor, 0)

Abs(n) == IF n < 0 THEN 0 - n ELSE n

-----------------------------------------------------------------------------
(* The claims *)

\* C1: DefaultQuantizer, out_fg # out_bg: the palette size written is at most
\* max_fg_colors and is the number of triples written after it, and after a
\* reduction the triples are those of every reduced colour of the image (the
\* set of a completed pass).
C1_PaletteWithinLimit ==
  (call.quantizer = "Default" /\ ~call.same /\ stream.count # <<>>) =>
    /\ stream.count[1] <= max_fg_colors
    /\ Len(stream.palette) = stream.count[1]
    /\ \A y \in Rows : \A x \in Cols :
         Foreground(y, x) =>
           \E i \in 1..Len(stream.palette) : TripleKey(stream.palette[i]) = FinalKey(y, x)
    /\ \A i, j \in 1..Len(stream.palette) :
         i < j => TripleKey(stream.palette[i]) < TripleKey(stream.palette[j])

C1_Witness ==
  /\ Returned("Default") /\ ~call.same
  /\ divisor > 4
  /\ stream.count = << max_fg_colors >>
  /\ max_fg_colors = 2

\* C2: neither has_foreground nor has_background goes from true to false, in
\* any step of any sequence of calls.
C2_FlagsMonotonic ==
  [][(has_foreground => has_foreground') /\ (has_background => has_background')]_vars

C2_Witness ==
  /\ Analyzed
  /\ entry.has_foreground /\ entry.has_background
  /\ \A y \in Rows : \A x \in Cols : ~Foreground(y, x) /\ bg[y][x] = bg[1][1]
  /\ has_foreground /\ has_background

\* C3: Mask, WebSafe and Default, out_fg # out_bg: has_foreground on return is
\* true iff it was true on entry or some pixel differs between fg and bg and
\* its fg colour is not (0, 0, 0).
C3_HasForeground ==
  Analyzed =>
    (has_foreground <=>
       \/ entry.has_foreground
       \/ \E y \in Rows : \E x \in Cols : Foreground(y, x) /\ fg[y][x] # <<0, 0, 0>>)

\* a call that saw a differing black pixel and left the flag down
C3_Witness ==
  /\ Analyzed
  /\ \E y \in Rows : \E x \in Cols : Foreground(y, x) /\ fg[y][x] = <<0, 0, 0>>
  /\ ~has_foreground

\* C4: Mask, WebSafe and Default, out_fg # out_bg: background_color on return
\* is the first bg pixel, and has_background on return is true iff it was true
\* on entry or some bg pixel differs from that first bg pixel.
C4_BackgroundSampled ==
  Analyzed =>
    /\ background_color = bg[1][1]
    /\ (has_background <=>
          \/ entry.has_background
          \/ \E y \in Rows : \E x \in Cols : bg[y][x] # bg[1][1])

\* C5: Mask, WebSafe and Default, out_fg = out_bg: the stream holds the
\* bitonal header and one run of width background pixels for each row, no
\* palette; has_background is true and has_foreground is as on entry.
C5_IdenticalFastPath ==
  (call.quantizer \in { "Mask", "WebSafe", "Default" } /\ call.same /\ outcome # "idle") =>
    /\ outcome = "returned"
    /\ stream = [header |-> <<"R4", width, height>>, count |-> <<>>, palette |-> <<>>,
                 rows |-> [y \in 1..height |-> << width >>]]
    /\ has_background
    /\ has_foreground = entry.has_foreground

C5_Witness ==
  /\ Returned("Default") /\ call.same
  /\ ~entry.has_background /\ ~entry.has_foreground
  /\ height = 2
  /\ \E y \in Rows : \E x \in Cols : Foreground(y, x) /\ fg[y][x] # <<0, 0, 0>>

\* C6 as claimed: the Dummy quantizer writes height runs of width background
\* pixels, sets background_color to white, leaves has_foreground as it was and
\* leaves has_background true.
C6_DummyClaimed ==
  Returned("Dummy") =>
    /\ stream.header = <<"R4", width, height>>
    /\ stream.rows = [y \in 1..height |-> << width >>]
    /\ background_color = <<255, 255, 255>>
    /\ has_foreground = entry.has_foreground
    /\ has_background

\* C6 amended: the Dummy quantizer writes height runs of width background
\* pixels, sets background_color to white and leaves has_foreground and
\* has_background as they were on entry.
C6_Dummy ==
  Returned("Dummy") =>
    /\ stream.header = <<"R4", width, height>>
    /\ stream.count = <<>> /\ stream.palette = <<>>
    /\ stream.rows = [y \in 1..height |-> << width >>]
    /\ background_color = <<255, 255, 255>>
    /\ has_foreground = entry.has_foreground
    /\ has_background = entry.has_background

C6_Witness ==
  /\ Returned("Dummy")
  /\ ~entry.has_background
  /\ entry.background_color # <<255, 255, 255>>
  /\ \E y \in Rows : \E x \in Cols : Foreground(y, x)

\* C7: built without GraphicsMagick, using the GraphicsMagick quantizer ends
\* in NotImplementedError with nothing written and the caller's outputs
\* unchanged; it never returns.
C7_NotImplemented ==
  (call.quantizer = "GraphicsMagick") =>
    /\ outcome = "NotImplementedError"
    /\ stream = EmptyStream
    /\ has_foreground = entry.has_foreground
    /\ has_background = entry.has_background
    /\ background_color = entry.background_color

C7_Witness ==
  /\ call.quantizer = "GraphicsMagick"
  /\ outcome = "NotImplementedError"
  /\ \E y \in Rows : \E x \in Cols : Foreground(y, x)

\* C8: WebSafe, out_fg # out_bg: the palette written has 216 entries, entry i
\* (from 0) being (51*(i/36), 51*((i/6)%6), 51*(i%6)); a foreground pixel
\* carries the index (B+1)/43 + 6*((G+1)/43 + 6*((R+1)/43)), which is within
\* 0..215, and a background pixel carries 0xFFF; the index is within 0..215
\* for the extreme values of the channels too.
C8_WebSafe ==
  (Returned("WebSafe") /\ ~call.same) =>
    /\ stream.count = <<216>>
    /\ Len(stream.palette) = 216
    /\ \A i \in 0..215 :
         stream.palette[i + 1] = <<51 * (i \div 36), 51 * ((i \div 6) % 6), 51 * (i % 6)>>
    /\ \A y \in Rows :
         LET indices == PixelIndices(stream.rows[y], 1)
         IN  /\ Len(indices) = width
             /\ \A x \in Cols :
                  IF Foreground(y, x)
                    THEN /\ indices[x] = (fg[y][x][3] + 1) \div 43
                                         + 6 * ((fg[y][x][2] + 1) \div 43
                                                + 6 * ((fg[y][x][1] + 1) \div 43))
                         /\ indices[x] \in 0..215
                    ELSE indices[x] = 4095
    /\ \A r, g, b \in { 0, 42, 255 } : WebColor(<<r, g, b>>) \in 0..215

C8_Witness ==
  /\ Returned("WebSafe") /\ ~call.same
  /\ \E y \in Rows : \E x \in Cols :
       /\ Foreground(y, x)
       /\ fg[y][x] = <<200, 100, 42>>
       /\ PixelIndices(stream.rows[y], 1)[x] = 157
  /\ \E y \in Rows : \E x \in Cols : ~Foreground(y, x)

\* the greatest difference, over the foreground pixels and the three
\* channels, between the byte of the palette entry a pixel's index refers to
\* and the pixel's fg byte
WithinOfTrueColor(bound) ==
  \A y \in Rows :
    LET indices == PixelIndices(stream.rows[y], 1)
    IN  \A x \in Cols :
          Foreground(y, x) =>
            /\ indices[x] + 1 \in 1..Len(stream.palette)
            /\ \A i \in 1..3 : Abs(stream.palette[indices[x] + 1][i] - fg[y][x][i]) <= bound

\* C9 as claimed: DefaultQuantizer: the palette colour of every foreground
\* pixel is, in each channel, within the final divisor (4 when no pass ran)
\* of the pixel's fg byte.
C9_WithinDivisorClaimed ==
  (Returned("Default") /\ ~call.same) => WithinOfTrueColor(divisor)

\* C9 amended: DefaultQuantizer: the palette colour of every foreground pixel
\* is, in each channel, within 4 of the pixel's fg byte when no reduction pass
\* ran and within the final divisor plus 4 after a reduction.
C9_WithinDivisorPlus4 ==
  (Returned("Default") /\ ~call.same) =>
    WithinOfTrueColor(IF divisor = 4 THEN 4 ELSE divisor + 4)

C9_Witness ==
  /\ Returned("Default") /\ ~call.same
  /\ divisor = 9
  /\ \E y \in Rows : \E x \in Cols :
       /\ Foreground(y, x)
       /\ fg[y][x] = <<11, 0, 0>>
       /\ stream.palette[PixelIndices(stream.rows[y], 1)[x] + 1] = <<0, 0, 0>>

\* C10: DefaultQuantizer: the lengths of the words of a row sum to width; a
\* pixel carries 0xFFF iff it is background; a foreground pixel carries an
\* index below the palette size, which is the rank, among the palette
\* entries in ascending Rgb18 order, of its Rgb18 value (reduced with the
\* final divisor after a reduction), so that the palette entry of that index
\* is its colour.
C10_IndexMapping ==
  (Returned("Default") /\ ~call.same) =>
    \A y \in Rows :
      LET indices == PixelIndices(stream.rows[y], 1)
          keys == { TripleKey(stream.palette[i]) : i \in 1..Len(stream.palette) }
      IN  /\ Len(indices) = width
          /\ \A x \in Cols :
               /\ indices[x] = 4095 <=> ~Foreground(y, x)
               /\ Foreground(y, x) =>
                    /\ indices[x] \in 0..(stream.count[1] - 1)
                    /\ indices[x] = Cardinality({ k \in keys : k < FinalKey(y, x) })
                    /\ TripleKey(stream.palette[indices[x] + 1]) = FinalKey(y, x)

C10_Witness ==
  /\ Returned("Default") /\ ~call.same
  /\ divisor > 4
  /\ stream.count = <<2>>
  /\ \E y \in Rows : \E x \in Cols : PixelIndices(stream.rows[y], 1)[x] = 1
  /\ \E y \in Rows : \E x \in Cols : PixelIndices(stream.rows[y], 1)[x] = 0

\* C11: DefaultQuantizer, out_fg # out_bg: the loop over the divisor ends
\* after at most 256 increments, no pass along the way divides by zero (the
\* call is not ended by the signal and the divisor stays below the first one
\* for which c - 1 = 0), and when it ends the palette size written is at
\* most max_fg_colors.
C11_SearchTerminates ==
  (call.quantizer = "Default" /\ ~call.same /\ outcome # "idle") =>
    /\ outcome = "returned"
    /\ divisor - 4 <= 256
    /\ divisor < ZeroDivisor
    /\ stream.count # <<>>
    /\ stream.count[1] <= max_fg_colors

====
